---- MODULE Spec2Model ----
(***************************************************************************)
(* tower-cache: the LRU cache provider (src/lru.rs).                       *)
(*                                                                         *)
(* An LruProvider is a handle (Arc) onto one Mutex<LruCache<K, V>>.        *)
(* Callers own one handle each (Service::call takes &mut self), obtained   *)
(* from LruProvider::new or by cloning another handle, and issue Get and   *)
(* Insert requests; every request locks the mutex, runs LruCache::get or   *)
(* LruCache::put, and answers Found or NotFound.                           *)
(***************************************************************************)
EXTENDS Integers, Sequences, FiniteSets

\* ------------------------------------------------------------ bounds
MaxCap == 2
NumCallers == 2
MaxReq == 12

Keys == {"A", "B", "C"}
Values == {"x", "y"}
Capacities == 1..MaxCap
Callers == 1..NumCallers

\* ------------------------------------------------- requests, responses
\* ProviderRequest::Get(key) | ProviderRequest::Insert(key, value)
Get(k) == [op |-> "Get", k |-> k]
Insert(k, v) == [op |-> "Insert", k |-> k, v |-> v]
NoRequest == [op |-> "None"]
Requests == {Get(k) : k \in Keys} \cup {Insert(k, v) : k \in Keys, v \in Values}

\* ProviderResponse::Found(value) | ProviderResponse::NotFound, inside Ok(..)
Found(v) == [tag |-> "Found", v |-> v, ok |-> TRUE]
NotFound == [tag |-> "NotFound", ok |-> TRUE]
NoResponse == [tag |-> "None"]

\* ------------------------------------------------------ lru::LruCache
\* A cache is [cap, items]: items is the recency list, most recently used
\* first, of entries [k, v].
Held(items) == {items[i].k : i \in DOMAIN items}

Pos(items, k) == CHOOSE i \in DOMAIN items : items[i].k = k

Without(items, k) == SelectSeq(items, LAMBDA e : e.k # k)

Peek(items, k) == items[Pos(items, k)].v

\* LruCache::new(capacity)
LruCacheNew(capacity) == [cap |-> capacity, items |-> <<>>]

\* Mutant of LruCacheGet: the lookup of peek, which leaves the list as it is.
LruCacheGetNoPromote(c, k) == c

\* Mutant of LruCacheGet: a hit takes the entry out of the list (pop).
LruCacheGetPop(c, k) == [c EXCEPT !.items = Without(c.items, k)]

\* LruCache::get(&key): a hit moves the entry to the head of the list.
LruCacheGet(c, k) ==
  IF k \in Held(c.items)
  THEN [c EXCEPT !.items = <<c.items[Pos(c.items, k)]>> \o Without(c.items, k)]
  ELSE c

\* Mutant of LruCachePut: the fullness test is off by one (> for ==).
LruCachePutOffByOne(c, k, v) ==
  IF k \in Held(c.items)
  THEN [c EXCEPT !.items = <<[k |-> k, v |-> v]>> \o Without(c.items, k)]
  ELSE IF Len(c.items) > c.cap
  THEN [c EXCEPT !.items = <<[k |-> k, v |-> v]>> \o SubSeq(c.items, 1, Len(c.items) - 1)]
  ELSE [c EXCEPT !.items = <<[k |-> k, v |-> v]>> \o c.items]

\* Mutant of LruCachePut: a full list drops its head, the most recent entry.
LruCachePutEvictsHead(c, k, v) ==
  IF k \in Held(c.items)
  THEN [c EXCEPT !.items = <<[k |-> k, v |-> v]>> \o Without(c.items, k)]
  ELSE IF Len(c.items) = c.cap
  THEN [c EXCEPT !.items = <<[k |-> k, v |-> v]>> \o SubSeq(c.items, 2, Len(c.items))]
  ELSE [c EXCEPT !.items = <<[k |-> k, v |-> v]>> \o c.items]

\* Mutant of LruCachePut: a held key is overwritten where it is, not moved to the head.
LruCachePutInPlace(c, k, v) ==
  IF k \in Held(c.items)
  THEN [c EXCEPT !.items[Pos(c.items, k)].v = v]
  ELSE IF Len(c.items) = c.cap
  THEN [c EXCEPT !.items = <<[k |-> k, v |-> v]>> \o SubSeq(c.items, 1, Len(c.items) - 1)]
  ELSE [c EXCEPT !.items = <<[k |-> k, v |-> v]>> \o c.items]

\* Mutant of LruCachePut: fullness is tested before presence, so a full list
\* drops its tail even when the key is already held.
LruCachePutEvictsFirst(c, k, v) ==
  LET kept == IF Len(c.items) = c.cap
              THEN SubSeq(c.items, 1, Len(c.items) - 1)
              ELSE c.items
  IN [c EXCEPT !.items = <<[k |-> k, v |-> v]>> \o Without(kept, k)]

\* Mutant of LruCachePut: a held key is overwritten and moved to the tail.
LruCachePutOverwriteAtTail(c, k, v) ==
  IF k \in Held(c.items)
  THEN [c EXCEPT !.items = Without(c.items, k) \o <<[k |-> k, v |-> v]>>]
  ELSE IF Len(c.items) = c.cap
  THEN [c EXCEPT !.items = <<[k |-> k, v |-> v]>> \o SubSeq(c.items, 1, Len(c.items) - 1)]
  ELSE [c EXCEPT !.items = <<[k |-> k, v |-> v]>> \o c.items]

\* Mutant of LruCachePut: the tail is dropped one entry before the list is full.
LruCachePutEager(c, k, v) ==
  IF k \in Held(c.items)
  THEN [c EXCEPT !.items = <<[k |-> k, v |-> v]>> \o Without(c.items, k)]
  ELSE IF Len(c.items) > 0 /\ Len(c.items) + 1 >= c.cap
  THEN [c EXCEPT !.items = <<[k |-> k, v |-> v]>> \o SubSeq(c.items, 1, Len(c.items) - 1)]
  ELSE [c EXCEPT !.items = <<[k |-> k, v |-> v]>> \o c.items]

\* LruCache::put(key, value): a held key is overwritten and moved to the
\* head; an absent key replaces the tail entry when the list is full and is
\* attached at the head.
LruCachePut(c, k, v) ==
  IF k \in Held(c.items)
  THEN [c EXCEPT !.items = <<[k |-> k, v |-> v]>> \o Without(c.items, k)]
  ELSE IF Len(c.items) = c.cap
  THEN [c EXCEPT !.items = <<[k |-> k, v |-> v]>> \o SubSeq(c.items, 1, Len(c.items) - 1)]
  ELSE [c EXCEPT !.items = <<[k |-> k, v |-> v]>> \o c.items]

\* The call of src/lru.rs run alone on cache c: its response and its effect.
CallResponse(c, r) ==
  IF r.op = "Insert" THEN Found(r.v)
  ELSE IF r.k \in Held(c.items) THEN Found(Peek(c.items, r.k))
  ELSE NotFound

CallEffect(c, r) ==
  IF r.op = "Insert" THEN LruCachePut(c, r.k, r.v) ELSE LruCacheGet(c, r.k)

\* ------------------------------------------------------------- state
VARIABLES
  heap,     \* the Arc allocations: heap[i] = [lock, cache], lock = 0 or the caller holding the MutexGuard
  inner,    \* inner[t]: the allocation caller t's handle points to (LruProvider.inner), 0 = no handle yet
  pc,       \* pc[t]: where caller t is in Service::call
  req,      \* req[t]: the request of the call in progress
  resp,     \* resp[t]: the response the call has built
  \* history variables: they record what happened and are read by no action's guard
  serial,   \* the cache obtained by running the calls one at a time in lock acquisition order
  expect,   \* expect[t]: the response of caller t's call in that sequential run
  usedOrder, \* the held keys by last use (Get hit or Insert), most recent first
  inserted, \* keys some Insert has stored
  evicted,  \* keys removed from the store and not inserted again since
  lastOp,   \* the last call that has released the lock: an Insert, a Get that hit or a Get that missed
  insRun,   \* keys of the latest run of Inserts of distinct keys with no Get in between
  overlap,  \* overlap[t]: another call released the lock while caller t's call was waiting for it
  lateClone, \* some handle was cloned after an Insert
  lastVal,  \* lastVal[k]: the value of the latest Insert of k, for the keys held; "none" for the others
  \* a use of the Transform trait (src/transform.rs), which shares nothing with the provider
  tpc,      \* "idle", or "done" once transform has returned
  tsel,     \* the implementor transform was called on: "unit" for (), or the name of a function
  tin,      \* the request passed to transform
  tout,     \* what transform returned
  applied   \* how many times the function was applied during the call of transform

hist == <<serial, expect, usedOrder, inserted, evicted, lastOp, insRun, overlap, lateClone, lastVal>>
lruVars == <<heap, inner, pc, req, resp, hist>>
tvars == <<tpc, tsel, tin, tout, applied>>
vars == <<lruVars, tvars>>

NoOp == [op |-> "None"]
GetHit(k) == [op |-> "GetHit", k |-> k]
GetMiss == [op |-> "GetMiss"]
InsertOp(t, k, v) == [op |-> "Insert", k |-> k, v |-> v, t |-> t]
\* What a finished call leaves in lastOp: its request and, for a Get, its outcome.
Finished(t, r, answer) ==
  IF r.op = "Insert" THEN InsertOp(t, r.k, r.v)
  ELSE IF answer.tag = "Found" THEN GetHit(r.k)
  ELSE GetMiss

Mine(t) == heap[inner[t]]

KeysOf(seq) == {seq[i] : i \in DOMAIN seq}
Touch(order, k) == <<k>> \o SelectSeq(order, LAMBDA x : x # k)
Prune(order, held) == SelectSeq(order, LAMBDA x : x \in held)
\* lastVal after an Insert of k with v that leaves the keys held.
Record(vals, k, v, held) ==
  [x \in Keys |-> IF x = k THEN v ELSE IF x \in held THEN vals[x] ELSE "none"]

\* LruProvider::new(capacity), held by caller 1
Init ==
  /\ \E capacity \in Capacities :
       /\ heap = <<[lock |-> 0, cache |-> LruCacheNew(capacity)]>>
       /\ serial = LruCacheNew(capacity)
  /\ inner = [t \in Callers |-> IF t = 1 THEN 1 ELSE 0]
  /\ pc = [t \in Callers |-> "idle"]
  /\ req = [t \in Callers |-> NoRequest]
  /\ resp = [t \in Callers |-> NoResponse]
  /\ expect = [t \in Callers |-> NoResponse]
  /\ usedOrder = <<>>
  /\ inserted = {}
  /\ evicted = {}
  /\ lastOp = NoOp
  /\ insRun = <<>>
  /\ overlap = [t \in Callers |-> FALSE]
  /\ lateClone = FALSE
  /\ lastVal = [k \in Keys |-> "none"]
  /\ tpc = "idle" /\ tsel = "unit" /\ tin = 0 /\ tout = 0 /\ applied = 0

\* Mutant of Clone: a deep copy, a new allocation holding a copy of the cache.
CloneDeep(s, t) ==
  /\ inner[s] # 0 /\ pc[s] \in {"idle", "ready"}
  /\ inner[t] = 0
  /\ heap' = Append(heap, heap[inner[s]])
  /\ inner' = [inner EXCEPT ![t] = Len(heap) + 1]
  /\ lateClone' = (lateClone \/ inserted # {})
  /\ UNCHANGED <<pc, req, resp>>
  /\ UNCHANGED <<serial, expect, usedOrder, inserted, evicted, lastOp, insRun, overlap, lastVal>>
  /\ UNCHANGED tvars

\* impl Clone for LruProvider: caller t receives a clone of caller s's handle,
\* an Arc onto the same allocation.
Clone(s, t) ==
  /\ inner[s] # 0 /\ pc[s] \in {"idle", "ready"}
  /\ inner[t] = 0
  /\ inner' = [inner EXCEPT ![t] = inner[s]]
  /\ lateClone' = (lateClone \/ inserted # {})
  /\ UNCHANGED <<heap, pc, req, resp>>
  /\ UNCHANGED <<serial, expect, usedOrder, inserted, evicted, lastOp, insRun, overlap, lastVal>>
  /\ UNCHANGED tvars

\* Mutant of PollReady: ready only while the mutex is free (a try_lock).
PollReadyIfUnlocked(t) == IF Mine(t).lock = 0 THEN "ReadyOk" ELSE "Pending"

\* poll_ready: always Poll::Ready(Ok(()))
PollReady(t) == "ReadyOk"

\* Mutant of Call: the body is deferred to the future (an async block): call
\* returns at once, having locked nothing and built no response.
CallLazy(t) ==
  /\ inner[t] # 0 /\ pc[t] = "idle"
  /\ pc' = [pc EXCEPT ![t] = "ready"]
  /\ resp' = [resp EXCEPT ![t] = NoResponse]
  /\ UNCHANGED <<heap, inner, req, hist>>
  /\ UNCHANGED tvars

\* Service::call entered (after poll_ready): the caller is about to lock the
\* mutex; the output of its previous call, if it still has it, is gone.
Call(t) ==
  /\ inner[t] # 0 /\ pc[t] = "idle"
  /\ PollReady(t) = "ReadyOk"
  /\ pc' = [pc EXCEPT ![t] = "lock"]
  /\ resp' = [resp EXCEPT ![t] = NoResponse]
  /\ UNCHANGED <<heap, inner, req, hist>>
  /\ UNCHANGED tvars

\* Mutant of Lock: no mutual exclusion, the guard is handed out at once.
LockNoWait(t, r) ==
  /\ pc[t] = "lock"
  /\ heap' = [heap EXCEPT ![inner[t]].lock = t]
  /\ req' = [req EXCEPT ![t] = r]
  /\ pc' = [pc EXCEPT ![t] = IF r.op = "Get" THEN "get" ELSE "put"]
  /\ serial' = CallEffect(serial, r)
  /\ expect' = [expect EXCEPT ![t] = CallResponse(serial, r)]
  /\ UNCHANGED <<inner, resp>>
  /\ UNCHANGED <<usedOrder, inserted, evicted, lastOp, insRun, overlap, lateClone, lastVal>>
  /\ UNCHANGED tvars

\* self.inner.lock().unwrap(): blocks while another guard is alive. The request
\* is the caller's own until here; it is drawn when the call first reads it.
Lock(t, r) ==
  /\ pc[t] = "lock"
  /\ Mine(t).lock = 0
  /\ heap' = [heap EXCEPT ![inner[t]].lock = t]
  /\ req' = [req EXCEPT ![t] = r]
  /\ pc' = [pc EXCEPT ![t] = IF r.op = "Get" THEN "get" ELSE "put"]
  /\ serial' = CallEffect(serial, r)
  /\ expect' = [expect EXCEPT ![t] = CallResponse(serial, r)]
  /\ UNCHANGED <<inner, resp>>
  /\ UNCHANGED <<usedOrder, inserted, evicted, lastOp, insRun, overlap, lateClone, lastVal>>
  /\ UNCHANGED tvars

\* Mutant of GetLookup: a miss stores a default value and answers it (get_or_insert).
GetLookupOrInsert(t) ==
  /\ pc[t] = "get"
  /\ heap' = [heap EXCEPT ![inner[t]].cache =
                IF req[t].k \in Held(@.items) THEN LruCacheGet(@, req[t].k)
                ELSE LruCachePut(@, req[t].k, "x")]
  /\ pc' = [pc EXCEPT ![t] = "clone"]
  /\ usedOrder' = Prune(Touch(usedOrder, req[t].k), Held(heap'[inner[t]].cache.items))
  /\ insRun' = <<>>
  /\ UNCHANGED <<inner, req, resp>>
  /\ UNCHANGED <<serial, expect, inserted, evicted, lastOp, overlap, lateClone, lastVal>>
  /\ UNCHANGED tvars

\* ProviderRequest::Get: .get(&key), and the None arm.
GetLookup(t) ==
  /\ pc[t] = "get"
  /\ heap' = [heap EXCEPT ![inner[t]].cache = LruCacheGet(@, req[t].k)]
  /\ IF req[t].k \in Held(Mine(t).cache.items)
     THEN /\ pc' = [pc EXCEPT ![t] = "clone"]
          /\ usedOrder' = Touch(usedOrder, req[t].k)
          /\ UNCHANGED resp
     ELSE /\ pc' = [pc EXCEPT ![t] = "unlock"]
          /\ resp' = [resp EXCEPT ![t] = NotFound]
          /\ UNCHANGED usedOrder
  /\ insRun' = <<>>
  /\ UNCHANGED <<inner, req>>
  /\ UNCHANGED <<serial, expect, inserted, evicted, lastOp, overlap, lateClone, lastVal>>
  /\ UNCHANGED tvars

\* Some(value) => Found(value.clone()): reads the entry through the reference
\* get returned, which the guard keeps valid; a reference to an entry that is
\* gone reads anything.
GetClone(t) ==
  /\ pc[t] = "clone"
  /\ \E v \in (IF req[t].k \in Held(Mine(t).cache.items)
               THEN {Peek(Mine(t).cache.items, req[t].k)}
               ELSE Values) :
       resp' = [resp EXCEPT ![t] = Found(v)]
  /\ pc' = [pc EXCEPT ![t] = "unlock"]
  /\ UNCHANGED <<heap, inner, req, hist>>
  /\ UNCHANGED tvars

\* Mutant of Put: the response is built and put is never called.
PutDropped(t) ==
  /\ pc[t] = "put"
  /\ resp' = [resp EXCEPT ![t] = Found(req[t].v)]
  /\ pc' = [pc EXCEPT ![t] = "unlock"]
  /\ insRun' = IF req[t].k \in KeysOf(insRun) THEN <<req[t].k>> ELSE Append(insRun, req[t].k)
  /\ UNCHANGED <<heap, inner, req>>
  /\ UNCHANGED <<serial, expect, usedOrder, inserted, evicted, lastOp, overlap, lateClone, lastVal>>
  /\ UNCHANGED tvars

\* Mutant of Put: the response carries what put returned, the entry's previous value.
PutEchoPrevious(t) ==
  /\ pc[t] = "put"
  /\ heap' = [heap EXCEPT ![inner[t]].cache = LruCachePut(@, req[t].k, req[t].v)]
  /\ resp' = [resp EXCEPT ![t] =
                IF req[t].k \in Held(Mine(t).cache.items)
                THEN Found(Peek(Mine(t).cache.items, req[t].k))
                ELSE NotFound]
  /\ pc' = [pc EXCEPT ![t] = "unlock"]
  /\ usedOrder' = Prune(Touch(usedOrder, req[t].k), Held(heap'[inner[t]].cache.items))
  /\ inserted' = inserted \cup {req[t].k}
  /\ evicted' = (evicted \cup (Held(Mine(t).cache.items) \ Held(heap'[inner[t]].cache.items)))
                  \ {req[t].k}
  /\ insRun' = IF req[t].k \in KeysOf(insRun) THEN <<req[t].k>> ELSE Append(insRun, req[t].k)
  /\ lastVal' = Record(lastVal, req[t].k, req[t].v, Held(heap'[inner[t]].cache.items))
  /\ UNCHANGED <<inner, req>>
  /\ UNCHANGED <<serial, expect, lastOp, overlap, lateClone>>
  /\ UNCHANGED tvars

\* ProviderRequest::Insert: .put(key, value.clone()), then Found(value)
Put(t) ==
  /\ pc[t] = "put"
  /\ heap' = [heap EXCEPT ![inner[t]].cache = LruCachePut(@, req[t].k, req[t].v)]
  /\ resp' = [resp EXCEPT ![t] = Found(req[t].v)]
  /\ pc' = [pc EXCEPT ![t] = "unlock"]
  /\ usedOrder' = Prune(Touch(usedOrder, req[t].k), Held(heap'[inner[t]].cache.items))
  /\ inserted' = inserted \cup {req[t].k}
  /\ evicted' = (evicted \cup (Held(Mine(t).cache.items) \ Held(heap'[inner[t]].cache.items)))
                  \ {req[t].k}
  /\ insRun' = IF req[t].k \in KeysOf(insRun) THEN <<req[t].k>> ELSE Append(insRun, req[t].k)
  /\ lastVal' = Record(lastVal, req[t].k, req[t].v, Held(heap'[inner[t]].cache.items))
  /\ UNCHANGED <<inner, req>>
  /\ UNCHANGED <<serial, expect, lastOp, overlap, lateClone>>
  /\ UNCHANGED tvars

\* Mutant of Leave: the guard outlives the call (it is forgotten, or moved
\* into the future), so the mutex stays locked.
LeaveHoldingGuard(t, to) ==
  /\ pc[t] = "unlock"
  /\ pc' = [pc EXCEPT ![t] = to]
  /\ req' = [req EXCEPT ![t] = NoRequest]
  /\ resp' = [resp EXCEPT ![t] = IF to = "ready" THEN resp[t] ELSE NoResponse]
  /\ expect' = [expect EXCEPT ![t] = NoResponse]
  /\ lastOp' = Finished(t, req[t], resp[t])
  /\ UNCHANGED <<heap, inner>>
  /\ UNCHANGED <<serial, usedOrder, inserted, evicted, insRun, overlap, lateClone, lastVal>>
  /\ UNCHANGED tvars

\* The end of call: the MutexGuard, a temporary of the match, is dropped, and
\* Box::pin(ready(Ok(response))) is returned. to = "ready": the caller holds
\* the future, which holds the response; to = "idle": the caller is done with
\* the future as soon as it has it.
Leave(t, to) ==
  /\ pc[t] = "unlock"
  /\ heap' = [heap EXCEPT ![inner[t]].lock = 0]
  /\ pc' = [pc EXCEPT ![t] = to]
  /\ req' = [req EXCEPT ![t] = NoRequest]
  /\ resp' = [resp EXCEPT ![t] = IF to = "ready" THEN resp[t] ELSE NoResponse]
  /\ expect' = [expect EXCEPT ![t] = NoResponse]
  /\ lastOp' = Finished(t, req[t], resp[t])
  /\ overlap' = [u \in Callers |-> IF u = t THEN FALSE ELSE overlap[u] \/ pc[u] = "lock"]
  /\ UNCHANGED inner
  /\ UNCHANGED <<serial, usedOrder, inserted, evicted, insRun, lateClone, lastVal>>
  /\ UNCHANGED tvars

\* The guard is dropped and the future returned is consumed at once.
Unlock(t) == Leave(t, "idle")

\* The guard is dropped and call returns its future to the caller.
Return(t) == Leave(t, "ready")

\* The first poll of the future call returned: ready(..) is Ready at once
\* with the response, which the caller keeps until its next call.
Poll(t) ==
  /\ pc[t] = "ready"
  /\ pc' = [pc EXCEPT ![t] = "idle"]
  /\ UNCHANGED <<heap, inner, req, resp, hist>>
  /\ UNCHANGED tvars

\* The future call returned is dropped without having been polled.
DropFuture(t) ==
  /\ pc[t] = "ready"
  /\ pc' = [pc EXCEPT ![t] = "idle"]
  /\ resp' = [resp EXCEPT ![t] = NoResponse]
  /\ UNCHANGED <<heap, inner, req, hist>>
  /\ UNCHANGED tvars

\* ------------------------------------------------- src/transform.rs
RequestValues == 0..MaxReq
\* The functions and closures used as transforms: v * 2 is the one of the tests.
Fns == {"double", "succ", "square"}
Apply(f, x) ==
  CASE f = "double" -> x * 2
    [] f = "succ" -> x + 1
    [] f = "square" -> x * x

\* Mutant of TransformUnit: the unit transform answers a default value.
TransformUnitDefault(x) ==
  /\ tpc = "idle"
  /\ tpc' = "done" /\ tsel' = "unit" /\ tin' = x
  /\ tout' = 0
  /\ applied' = 0
  /\ UNCHANGED lruVars

\* impl<R> Transform<R> for (): transform(&self, req) is req.
TransformUnit(x) ==
  /\ tpc = "idle"
  /\ tpc' = "done" /\ tsel' = "unit" /\ tin' = x
  /\ tout' = x
  /\ applied' = 0
  /\ UNCHANGED lruVars

\* Mutant of TransformFn: the function is applied to its own result.
TransformFnTwice(f, x) ==
  /\ tpc = "idle"
  /\ tpc' = "done" /\ tsel' = f /\ tin' = x
  /\ tout' = Apply(f, Apply(f, x))
  /\ applied' = 2
  /\ UNCHANGED lruVars

\* impl<F: Fn(R) -> O> Transform<R> for F: transform(&self, req) is (self)(req),
\* one application of the function.
TransformFn(f, x) ==
  /\ tpc = "idle"
  /\ tpc' = "done" /\ tsel' = f /\ tin' = x
  /\ tout' = Apply(f, x)
  /\ applied' = 1
  /\ UNCHANGED lruVars

\* The caller has taken the output and may call transform again.
TransformDone ==
  /\ tpc = "done"
  /\ tpc' = "idle"
  /\ UNCHANGED <<tsel, tin, tout, applied>>
  /\ UNCHANGED lruVars

NextTransform ==
  \/ \E x \in RequestValues : TransformUnit(x)
  \/ \E f \in Fns, x \in RequestValues : TransformFn(f, x)
  \/ TransformDone

SpecTransform == Init /\ [][NextTransform]_vars

Next ==
  \/ \E s, t \in Callers : Clone(s, t)
  \/ \E t \in Callers : Call(t)
  \/ \E t \in Callers, r \in Requests : Lock(t, r)
  \/ \E t \in Callers : GetLookup(t)
  \/ \E t \in Callers : GetClone(t)
  \/ \E t \in Callers : Put(t)
  \/ \E t \in Callers : Unlock(t)

Spec == Init /\ [][Next]_vars

\* A fair scheduler: a call inside its critical section keeps running, and a
\* call that is able again and again to take the lock does take it. Nothing
\* obliges a caller to start a call or to clone a handle.
CriticalStep(t) == GetLookup(t) \/ GetClone(t) \/ Put(t) \/ Unlock(t)
Acquire(t) == \E r \in Requests : Lock(t, r)
Fairness == \A t \in Callers : WF_vars(CriticalStep(t)) /\ SF_vars(Acquire(t))
FairSpec == Spec /\ Fairness

\* The callers keep the futures: each is polled or dropped in its own time.
NextFuture ==
  \/ \E s, t \in Callers : Clone(s, t)
  \/ \E t \in Callers : Call(t)
  \/ \E t \in Callers, r \in Requests : Lock(t, r)
  \/ \E t \in Callers : GetLookup(t)
  \/ \E t \in Callers : GetClone(t)
  \/ \E t \in Callers : Put(t)
  \/ \E t \in Callers : Return(t)
  \/ \E t \in Callers : Poll(t)
  \/ \E t \in Callers : DropFuture(t)

SpecFuture == Init /\ [][NextFuture]_vars

\* ------------------------------------------------------------ claims
Items(t) == Mine(t).cache.items
Cap(t) == Mine(t).cache.cap
InCall(t) == pc[t] \in {"get", "clone", "put", "unlock"}

\* C1: whatever Gets and Inserts were issued, through any number of handles,
\* no store holds more entries, or more distinct keys, than its capacity.
CapacityInvariant ==
  \A i \in DOMAIN heap :
    /\ Cardinality(Held(heap[i].cache.items)) <= heap[i].cache.cap
    /\ Len(heap[i].cache.items) <= heap[i].cache.cap

\* A full store that has already evicted, with two handles in use.
CapacityWitness ==
  /\ \E i \in DOMAIN heap :
       Len(heap[i].cache.items) = heap[i].cache.cap /\ heap[i].cache.cap >= 2
  /\ evicted # {}
  /\ \A t \in {1, 2} : inner[t] # 0

\* C2: an Insert of an absent key into a full store removes exactly one entry,
\* the least recently used one, never the inserted key; and after Inserts of
\* cap + 1 distinct keys k1..k(cap+1) with no Get in between the store holds
\* exactly k2..k(cap+1).
EvictsLeastRecentlyUsed ==
  \A t \in Callers :
    (/\ pc[t] = "put" /\ pc'[t] = "unlock"
     /\ req[t].k \notin Held(Items(t))
     /\ Len(Items(t)) = Cap(t))
    => LET before == Held(Items(t))
           after == Held(heap'[inner[t]].cache.items)
           lru == usedOrder[Len(usedOrder)]
       IN /\ before \ after = {lru}
          /\ Cardinality(before \ after) = 1
          /\ lru # req[t].k
          /\ after = (before \ {lru}) \cup {req[t].k}

RunOfInsertsKeepsLastCap ==
  \A t \in Callers :
    (inner[t] # 0 /\ pc[t] # "put" /\ Len(insRun) = Cap(t) + 1)
    => Held(Items(t)) = {insRun[i] : i \in 2..(Cap(t) + 1)}

RecencyEviction == [][EvictsLeastRecentlyUsed]_vars /\ []RunOfInsertsKeepsLastCap

\* Three distinct keys inserted in a row into a store of capacity 2: the first is gone.
RecencyEvictionWitness ==
  \E t \in Callers :
    /\ pc[t] = "unlock" /\ req[t].op = "Insert"
    /\ Cap(t) = 2 /\ Len(insRun) = 3
    /\ evicted = {insRun[1]}
    /\ Held(Items(t)) = {insRun[2], insRun[3]}

\* C3: a Get that hits makes its key the most recently used entry, and an
\* Insert that directly follows it evicts another entry when there is one.
GetRefreshesRecency ==
  \A t \in Callers :
    /\ (pc[t] \in {"clone", "unlock"} /\ req[t].op = "Get" /\ resp[t] # NotFound)
       => (Items(t)[1].k = req[t].k /\ usedOrder[1] = req[t].k)
    /\ (pc[t] = "unlock" /\ req[t].op = "Insert" /\ lastOp.op = "GetHit" /\ Cap(t) >= 2)
       => lastOp.k \in Held(Items(t))

\* Capacity 2, A and B held, Get(A) hit, then Insert(C): B is evicted, A and C remain.
GetRefreshesRecencyWitness ==
  \E t \in Callers :
    /\ pc[t] = "unlock" /\ req[t].op = "Insert" /\ req[t].k = "C"
    /\ Cap(t) = 2
    /\ lastOp = GetHit("A")
    /\ Held(Items(t)) = {"A", "C"}
    /\ "B" \in evicted

\* C4: a Get(k) that directly follows an Insert(k, v) answers Found(v).
RoundTrip ==
  \A t \in Callers :
    (/\ pc[t] = "unlock" /\ req[t].op = "Get"
     /\ lastOp.op = "Insert" /\ lastOp.k = req[t].k)
    => resp[t] = Found(lastOp.v)

\* Such a Get, on a full store that has evicted.
RoundTripWitness ==
  \E t \in Callers :
    /\ pc[t] = "unlock" /\ req[t].op = "Get"
    /\ lastOp.op = "Insert" /\ lastOp.k = req[t].k
    /\ resp[t] = Found(lastOp.v)
    /\ Len(Items(t)) = Cap(t) /\ evicted # {}

\* C5: a Get of a key never inserted, or evicted and not inserted again,
\* answers NotFound; a Get answers Found only for a key the store holds.
MissBehaviour ==
  \A t \in Callers :
    (pc[t] = "unlock" /\ req[t].op = "Get")
    => /\ (req[t].k \notin inserted \/ req[t].k \in evicted) => resp[t] = NotFound
       /\ resp[t].tag = "Found" => req[t].k \in Held(Items(t))
       /\ resp[t].tag \in {"Found", "NotFound"}

\* A Get of an evicted key has answered NotFound.
MissBehaviourWitness ==
  \E t \in Callers :
    /\ pc[t] = "unlock" /\ req[t].op = "Get"
    /\ req[t].k \in evicted
    /\ resp[t] = NotFound

\* C6: an Insert(k, v) answers Found(v), whatever the store holds.
InsertEcho ==
  \A t \in Callers :
    (pc[t] = "unlock" /\ req[t].op = "Insert") => resp[t] = Found(req[t].v)

\* An Insert that overwrote another value of its key, in a full store, answered its own value.
InsertEchoWitness ==
  \E t \in Callers :
    /\ pc[t] = "unlock" /\ req[t].op = "Insert"
    /\ lastOp.op = "Insert" /\ lastOp.k = req[t].k /\ lastOp.v # req[t].v
    /\ Len(Items(t)) = Cap(t)
    /\ resp[t] = Found(req[t].v)

\* C7: concurrent callers are linearizable in lock acquisition order: every
\* response, and the store (keys, values and recency order) whenever no call
\* is inside its critical section, are those of the calls run one at a time
\* in the order in which they acquired the lock; at most one call is inside.
Linearizable ==
  /\ \A t \in Callers :
       pc[t] = "unlock" => (resp[t] = expect[t] /\ Mine(t).cache = serial)
  /\ \A i \in DOMAIN heap : heap[i].lock = 0 => heap[i].cache = serial
  /\ \A t, u \in Callers : (InCall(t) /\ InCall(u)) => t = u

\* Two overlapping Inserts of one key with different values, a third call waiting:
\* the later Insert's value is the one stored.
LinearizableWitness ==
  \E t, u \in Callers :
    /\ t # u
    /\ pc[t] = "unlock" /\ overlap[t] /\ pc[u] = "lock"
    /\ req[t].op = "Insert"
    /\ lastOp.op = "Insert" /\ lastOp.t = u /\ lastOp.k = req[t].k /\ lastOp.v # req[t].v
    /\ Peek(Items(t), req[t].k) = req[t].v

\* A call uses its key when it is an Insert or a Get that hits.
Uses(t) == req[t].op = "Insert" \/ resp[t].tag = "Found"
TwoConcurrentUses(t) ==
  /\ pc[t] = "unlock" /\ overlap[t] /\ Uses(t)
  /\ lastOp.op \in {"Insert", "GetHit"}
  /\ lastOp.k # req[t].k

\* C8 as stated: of two concurrent calls using different keys, the key of the
\* call that acquired the lock first is the more recent once both are done.
TieBreakFirstLockerMoreRecent ==
  \A t \in Callers :
    (TwoConcurrentUses(t) /\ lastOp.k \in Held(Items(t)))
    => Pos(Items(t), lastOp.k) < Pos(Items(t), req[t].k)

\* C8, amended: the key of the call that acquired the lock last is the more
\* recent: it is the most recently used entry, and the first call's key, if
\* still held, comes after it.
TieBreakLastLockerMoreRecent ==
  \A t \in Callers :
    TwoConcurrentUses(t)
    => /\ Items(t)[1].k = req[t].k
       /\ lastOp.k \in Held(Items(t)) => Pos(Items(t), lastOp.k) > Pos(Items(t), req[t].k)

\* Two concurrent calls have used different keys and both keys are held.
TieBreakWitness ==
  \E t \in Callers :
    /\ TwoConcurrentUses(t)
    /\ lastOp.k \in Held(Items(t))
    /\ req[t].k \in Held(Items(t))

\* C9: every handle points to the one allocation made by new, so the store, its
\* capacity and its recency order are common to all handles, and a Get through
\* one handle that directly follows an Insert through another answers its value.
SharedHandles ==
  /\ Len(heap) = 1
  /\ \A t \in Callers : inner[t] \in {0, 1}
  /\ \A t \in Callers :
       (/\ pc[t] = "unlock" /\ req[t].op = "Get"
        /\ lastOp.op = "Insert" /\ lastOp.k = req[t].k /\ lastOp.t # t)
       => resp[t] = Found(lastOp.v)

\* Caller 2, whose handle was cloned after an Insert, reads what caller 1 inserted.
SharedHandlesWitness ==
  /\ lateClone
  /\ \A u \in Callers : inner[u] # 0 <=> u \in {1, 2}
  /\ pc[2] = "unlock" /\ req[2].op = "Get"
  /\ lastOp.op = "Insert" /\ lastOp.k = req[2].k /\ lastOp.t = 1
  /\ resp[2] = Found(lastOp.v)

\* C10: poll_ready is Ready(Ok) for every handle in every state, every response
\* built is an Ok (Found or NotFound), the guard is held only by a call that is
\* inside its critical section, and such a call can always take its next step.
Infallible ==
  \A t \in Callers :
    /\ inner[t] # 0 => PollReady(t) = "ReadyOk"
    /\ resp[t] # NoResponse => (resp[t].ok /\ resp[t].tag \in {"Found", "NotFound"})
    /\ pc[t] = "unlock" => resp[t] # NoResponse
    /\ (inner[t] # 0 /\ Mine(t).lock # 0) => InCall(Mine(t).lock)
    /\ InCall(t) => ENABLED (GetLookup(t) \/ GetClone(t) \/ Put(t) \/ Unlock(t))

\* A call has answered while another caller is waiting for the lock.
InfallibleWitness ==
  \E t, u \in Callers :
    /\ pc[t] = "unlock" /\ resp[t] = NotFound
    /\ pc[u] = "lock" /\ Mine(u).lock = t

\* C16: an Insert(k, v2) on a key the store holds replaces its value and evicts
\* nothing, even in a full store: the key set, the number of entries and the
\* values of the other keys are unchanged; and a Get that finds a key answers
\* the value of the latest Insert of that key, never an earlier one.
OverwriteStep ==
  \A t \in Callers :
    (pc[t] = "put" /\ pc'[t] = "unlock" /\ req[t].k \in Held(Items(t)))
    => LET old == Items(t)
           new == heap'[inner[t]].cache.items
       IN /\ Held(new) = Held(old)
          /\ Len(new) = Len(old)
          /\ Peek(new, req[t].k) = req[t].v
          /\ \A x \in Held(old) \ {req[t].k} : Peek(new, x) = Peek(old, x)
          /\ evicted' \subseteq evicted

GetAnswersLatestInsert ==
  \A t \in Callers :
    (pc[t] = "unlock" /\ req[t].op = "Get" /\ resp[t].tag = "Found")
    => resp[t].v = lastVal[req[t].k]

Overwrite == [][OverwriteStep]_vars /\ []GetAnswersLatestInsert

\* A full store of at least two entries in which an Insert has just replaced
\* another value of its key, nothing having been evicted.
OverwriteWitness ==
  \E t \in Callers :
    /\ pc[t] = "unlock" /\ req[t].op = "Insert"
    /\ lastOp.op = "Insert" /\ lastOp.k = req[t].k /\ lastOp.v # req[t].v
    /\ Len(Items(t)) = Cap(t) /\ Cap(t) >= 2
    /\ Peek(Items(t), req[t].k) = req[t].v
    /\ lastVal[req[t].k] = req[t].v
    /\ evicted = {}

\* C17: an Insert, on a held key as on an absent one, makes its key the most
\* recently used entry and keeps the order of the others; the key of an
\* Insert is not the one evicted by the Insert that directly follows it
\* (capacity 2: Insert A, Insert B, Insert A, Insert C leaves A and C).
InsertMakesMostRecent ==
  \A t \in Callers :
    (pc[t] = "unlock" /\ req[t].op = "Insert")
    => (Items(t)[1].k = req[t].k /\ usedOrder[1] = req[t].k)

InsertOnHeldKeepsOthersOrder ==
  \A t \in Callers :
    (pc[t] = "put" /\ pc'[t] = "unlock" /\ req[t].k \in Held(Items(t)))
    => Without(heap'[inner[t]].cache.items, req[t].k) = Without(Items(t), req[t].k)

InsertedSurvivesNextInsert ==
  \A t \in Callers :
    (pc[t] = "put" /\ pc'[t] = "unlock" /\ lastOp.op = "Insert" /\ Cap(t) >= 2)
    => lastOp.k \in Held(heap'[inner[t]].cache.items)

InsertRefreshesRecency ==
  /\ []InsertMakesMostRecent
  /\ [][InsertOnHeldKeepsOthersOrder /\ InsertedSurvivesNextInsert]_vars

\* Capacity 2, Insert A, Insert B, Insert A with no Get in between: A, which
\* was the least recently used entry, is now ahead of B.
InsertRefreshesRecencyWitness ==
  \E t \in Callers :
    /\ pc[t] = "unlock" /\ req[t].op = "Insert" /\ req[t].k = "A"
    /\ lastOp.op = "Insert" /\ lastOp.k = "B"
    /\ insRun = <<"A">> /\ evicted = {}
    /\ Cap(t) = 2 /\ Len(Items(t)) = 2
    /\ Items(t)[1].k = "A" /\ Items(t)[2].k = "B"

\* C18: a Get changes nothing but recency. A Get that misses leaves the store
\* exactly as it was; a Get that hits keeps the key set, every value, the
\* capacity and the order of the other keys, and moves only the key read;
\* reading the value changes nothing, and no other store is touched.
GetLookupFrame ==
  \A t \in Callers :
    (pc[t] = "get" /\ pc'[t] # "get")
    => LET old == Items(t)
           new == heap'[inner[t]].cache.items
           k == req[t].k
       IN /\ heap'[inner[t]].cache.cap = Cap(t)
          /\ k \notin Held(old) => heap' = heap
          /\ k \in Held(old) =>
               /\ Held(new) = Held(old) /\ Len(new) = Len(old)
               /\ \A x \in Held(old) : Peek(new, x) = Peek(old, x)
               /\ Without(new, k) = Without(old, k)
          /\ \A i \in DOMAIN heap : i # inner[t] => heap'[i] = heap[i]
          /\ inserted' = inserted /\ evicted' = evicted /\ lastVal' = lastVal

GetCloneFrame ==
  \A t \in Callers : (pc[t] = "clone" /\ pc'[t] # "clone") => heap' = heap

GetFrame == [][GetLookupFrame /\ GetCloneFrame]_vars

\* A Get has hit the second entry of the store, which another key headed
\* after the previous call: only the positions have changed.
GetFrameWitness ==
  \E t \in Callers :
    /\ pc[t] = "clone" /\ req[t].op = "Get"
    /\ lastOp.op \in {"Insert", "GetHit"} /\ lastOp.k # req[t].k
    /\ Len(Items(t)) >= 2
    /\ Items(t)[1].k = req[t].k /\ Items(t)[2].k = lastOp.k

\* C19: an entry leaves a store only in an Insert of an absent key into a full
\* store; the entry that leaves was used before each of the cap - 1 others
\* held, so cap distinct other keys were used since; and after a run of
\* Inserts of distinct keys, every key followed by fewer than cap others is held.
LeavesOnlyByFullInsert ==
  \A i \in DOMAIN heap :
    ~(Held(heap[i].cache.items) \subseteq Held(heap'[i].cache.items))
    => \E t \in Callers :
         /\ inner[t] = i /\ pc[t] = "put" /\ pc'[t] = "unlock"
         /\ req[t].k \notin Held(heap[i].cache.items)
         /\ Len(heap[i].cache.items) = heap[i].cache.cap
         /\ Len(usedOrder) = heap[i].cache.cap
         /\ req[t].k \notin KeysOf(usedOrder)
         /\ Held(heap[i].cache.items) \ Held(heap'[i].cache.items)
              = {usedOrder[Len(usedOrder)]}

RecentlyInsertedIsHeld ==
  \A t \in Callers :
    (inner[t] # 0 /\ pc[t] # "put")
    => \A i \in DOMAIN insRun :
         Len(insRun) - i < Cap(t) => insRun[i] \in Held(Items(t))

NoPrematureEviction == [][LeavesOnlyByFullInsert]_vars /\ []RecentlyInsertedIsHeld

\* A run of cap Inserts of distinct keys, cap >= 2, has just filled the store:
\* the first key, followed by cap - 1 others, is still held and nothing has left.
NoPrematureEvictionWitness ==
  \E t \in Callers :
    /\ pc[t] = "unlock" /\ req[t].op = "Insert"
    /\ Len(insRun) = Cap(t) /\ Cap(t) >= 2
    /\ Held(Items(t)) = KeysOf(insRun)
    /\ evicted = {}

\* C12: call does all its work before it returns. When call returns its
\* future the response is built, the effect of the request is in the store
\* (an Insert's entry is stored, the store is the one of the sequential run)
\* and the lock is released; a caller outside call never holds the lock; the
\* future is ready on its first poll; polling or dropping the future changes
\* no store, so an Insert whose future is dropped unpolled stays stored.
ReturnedFutureIsReady ==
  \A t \in Callers :
    /\ pc[t] = "ready" =>
         /\ resp[t] # NoResponse /\ resp[t].ok
         /\ ENABLED Poll(t)
    /\ pc[t] \in {"idle", "lock", "ready"} => (inner[t] = 0 \/ Mine(t).lock # t)
    /\ (/\ pc[t] \in {"idle", "ready"}
        /\ lastOp.op = "Insert" /\ lastOp.t = t
        /\ Mine(t).lock = 0)
       => (/\ lastOp.k \in Held(Items(t))
           /\ Peek(Items(t), lastOp.k) = lastOp.v)

EffectBeforeReturn ==
  \A t \in Callers :
    (pc[t] = "unlock" /\ pc'[t] = "ready")
    => /\ resp'[t] = expect[t]
       /\ heap'[inner[t]].cache = serial
       /\ heap'[inner[t]].lock = 0
       /\ req[t].op = "Insert" =>
            /\ req[t].k \in Held(heap'[inner[t]].cache.items)
            /\ Peek(heap'[inner[t]].cache.items, req[t].k) = req[t].v
       /\ (req[t].op = "Get" /\ resp[t].tag = "Found") =>
            heap'[inner[t]].cache.items[1].k = req[t].k

FutureTouchesNoStore ==
  \A t \in Callers :
    (pc[t] = "ready" /\ pc'[t] # "ready") => (heap' = heap /\ serial' = serial)

NoSuspension ==
  /\ []ReturnedFutureIsReady
  /\ [][EffectBeforeReturn /\ FutureTouchesNoStore]_vars

\* Caller t's Insert was the last call to end and its future was dropped
\* without being polled (t is idle and has no output): the entry is stored.
NoSuspensionWitness ==
  \E t \in Callers :
    /\ pc[t] = "idle" /\ resp[t] = NoResponse
    /\ lastOp.op = "Insert" /\ lastOp.t = t
    /\ Mine(t).lock = 0
    /\ Peek(Items(t), lastOp.k) = lastOp.v

\* C13: a call acquires the lock of its store once, when the lock is free and
\* the call holds none, and releases it in the step that ends the call; a
\* caller holds the lock exactly while it is inside its critical section; in
\* no state are all pending calls blocked; and under a fair scheduler every
\* call that was started completes.
LockDiscipline ==
  /\ \A i \in DOMAIN heap : heap[i].lock \in {0} \cup Callers
  /\ \A t \in Callers : inner[t] # 0 => (Mine(t).lock = t <=> InCall(t))
  /\ \A t \in Callers : inner[t] = 0 => pc[t] = "idle"

NotAllBlocked ==
  (\E t \in Callers : pc[t] # "idle")
  => \E t \in Callers : ENABLED (Acquire(t) \/ CriticalStep(t))

LockedOncePerCall ==
  \A t \in Callers :
    /\ (pc'[t] = "lock" /\ pc[t] # "lock") => pc[t] = "idle"
    /\ \A i \in DOMAIN heap :
         /\ (heap'[i].lock = t /\ heap[i].lock # t)
            => /\ heap[i].lock = 0 /\ i = inner[t]
               /\ pc[t] = "lock" /\ pc'[t] \in {"get", "put"}
               /\ \A j \in DOMAIN heap : heap[j].lock # t
         /\ (heap[i].lock = t /\ heap'[i].lock # t)
            => /\ heap'[i].lock = 0 /\ i = inner[t]
               /\ pc[t] = "unlock" /\ pc'[t] = "idle"

EveryCallCompletes == \A t \in Callers : (pc[t] # "idle") ~> (pc[t] = "idle")

IdentityTransform ==
  (tpc = "done" /\ tsel = "unit") => (tout = tin /\ applied = 0)

\* ().transform(2) has returned 2.
IdentityTransformWitness ==
  tpc = "done" /\ tsel = "unit" /\ tin = 2 /\ tout = 2

\* C15: a function f used as a transform returns f(x) on request x, having
\* applied f once; the doubling function returns 4 on request 2.
FunctionTransform ==
  (tpc = "done" /\ tsel \in Fns)
  => /\ tout = Apply(tsel, tin)
     /\ applied = 1
     /\ (tsel = "double" /\ tin = 2) => tout = 4

\* (|v| v * 2).transform(2) has returned 4.
FunctionTransformWitness ==
  tpc = "done" /\ tsel = "double" /\ tin = 2 /\ tout = 4 /\ applied = 1

====
